---- MODULE Spec2Model ----
(***************************************************************************)
(* Conviction voting: the conviction math of app/src/lib/conviction.js.    *)
(*                                                                         *)
(* Numbers of the conviction engine are kept exact and symbolic in the     *)
(* decay constant alpha: a number v is the rational function N(a)/(1 - a), *)
(* stored as its numerator N, a sparse Laurent polynomial in a with        *)
(* integer coefficients (a sequence of <<exponent, coefficient>> pairs in  *)
(* increasing exponent order, no zero coefficient).  Every value that      *)
(* `y0 * a ** t + (x * (1 - a ** t)) / (1 - a)` produces from integers is  *)
(* of this form, so two values are equal here iff they are equal for every *)
(* alpha in (0,1).  JavaScript's NaN and undefined are separate values.    *)
(*                                                                         *)
(* The threshold algebra (getRemainingTimeToPass, calculateThreshold)      *)
(* compares numbers, so it is evaluated on concrete rationals (alpha a     *)
(* fraction in (0,1)) extended with NaN and the two infinities; of a       *)
(* logarithm only the sign is kept.                                        *)
(***************************************************************************)
EXTENDS Integers, Sequences, FiniteSets, TLC

(* ------------------------------------------------------------------ *)
(* Bounds of the model                                                   *)
(* ------------------------------------------------------------------ *)
\* longest stake log
MaxEvents == 2
\* largest elapsed time handed to calculateConviction directly
MaxElapsed == 6
\* largest integer in the threshold algebra's inputs
MaxQty == 3

(* ------------------------------------------------------------------ *)
(* Sparse Laurent polynomials in alpha                                   *)
(* ------------------------------------------------------------------ *)
RECURSIVE SAdd(_, _)
SAdd(p, q) ==
  IF p = <<>> THEN q
  ELSE IF q = <<>> THEN p
  ELSE IF p[1][1] < q[1][1] THEN <<p[1]>> \o SAdd(Tail(p), q)
  ELSE IF p[1][1] > q[1][1] THEN <<q[1]>> \o SAdd(p, Tail(q))
  ELSE LET c == p[1][2] + q[1][2]
       IN  (IF c = 0 THEN <<>> ELSE << <<p[1][1], c>> >>) \o SAdd(Tail(p), Tail(q))

\* q * c * a^e, c # 0
SShiftScale(q, e, c) == [k \in 1..Len(q) |-> <<q[k][1] + e, q[k][2] * c>>]

RECURSIVE SMul(_, _)
SMul(p, q) ==
  IF p = <<>> \/ q = <<>> THEN <<>>
  ELSE SAdd(SShiftScale(q, p[1][1], p[1][2]), SMul(Tail(p), q))

\* the polynomial 1 - a
SOneMinusA == << <<0, 1>>, <<1, -1>> >>

\* long division in increasing exponent order; stops when the next quotient
\* term would lie beyond maxE or is no integer (the division is not exact)
RECURSIVE SQuotRec(_, _, _)
SQuotRec(p, d, maxE) ==
  IF p = <<>> THEN <<>>
  ELSE LET e == p[1][1] - d[1][1]
           c == p[1][2] \div d[1][2]
       IN  IF e > maxE \/ c * d[1][2] # p[1][2] THEN <<>>
           ELSE << <<e, c>> >> \o SQuotRec(SAdd(p, SShiftScale(d, e, -c)), d, maxE)

SQuot(p, d) ==
  IF p = <<>> THEN <<>> ELSE SQuotRec(p, d, p[Len(p)][1] - d[Len(d)][1])

SDivides(d, p) == SMul(SQuot(p, d), d) = p

(* ------------------------------------------------------------------ *)
(* JavaScript numbers of the conviction engine                           *)
(* ------------------------------------------------------------------ *)
Num(n) == [k |-> "num", n |-> n]
NaN == [k |-> "NaN", n |-> <<>>]
Undefined == [k |-> "undefined", n |-> <<>>]
\* a value outside N(a)/(1 - a); no expression of the source produces one
Inexact == [k |-> "inexact", n |-> <<>>]

IsNum(v) == v.k = "num"

\* the integer x, as x*(1 - a)/(1 - a)
FromInt(x) == Num(IF x = 0 THEN <<>> ELSE SShiftScale(SOneMinusA, 0, x))
Zero == FromInt(0)
One == FromInt(1)
\* alpha itself
Alpha == Num(SShiftScale(SOneMinusA, 1, 1))

\* undefined in arithmetic is NaN (ToNumber(undefined)); NaN propagates
JsAdd(v, w) ==
  IF ~IsNum(v) \/ ~IsNum(w) THEN (IF "inexact" \in {v.k, w.k} THEN Inexact ELSE NaN)
  ELSE Num(SAdd(v.n, w.n))

JsSub(v, w) ==
  IF ~IsNum(v) \/ ~IsNum(w) THEN (IF "inexact" \in {v.k, w.k} THEN Inexact ELSE NaN)
  ELSE Num(SAdd(v.n, SShiftScale(w.n, 0, -1)))

\* (Nv/(1-a)) * (Nw/(1-a)) = (Nv*Nw/(1-a)) / (1-a)
JsMul(v, w) ==
  IF ~IsNum(v) \/ ~IsNum(w) THEN (IF "inexact" \in {v.k, w.k} THEN Inexact ELSE NaN)
  ELSE LET p == SMul(v.n, w.n)
       IN  IF SDivides(SOneMinusA, p) THEN Num(SQuot(p, SOneMinusA)) ELSE Inexact

\* (Nv/(1-a)) / (Nw/(1-a)) = (Nv*(1-a)/Nw) / (1-a); the divisor is never 0
\* in the source (alpha # 1)
JsDiv(v, w) ==
  IF ~IsNum(v) \/ ~IsNum(w) THEN (IF "inexact" \in {v.k, w.k} THEN Inexact ELSE NaN)
  ELSE IF w.n = <<>> THEN Inexact
  ELSE LET p == SMul(v.n, SOneMinusA)
       IN  IF SDivides(w.n, p) THEN Num(SQuot(p, w.n)) ELSE Inexact

\* a ** t for an integer t (negative t: a^t is a Laurent monomial)
JsPowAlpha(t) == Num(SShiftScale(SOneMinusA, t, 1))

\* JavaScript's %: the result has the sign of the dividend (-0 === 0)
JsRem(a, b) == IF a >= 0 THEN a % b ELSE -((-a) % b)

\* calculateConviction with the decay of the initial conviction forgotten
calculateConviction_NoDecay(timePassed, initConv, amount) ==
  LET t == timePassed
      y0 == initConv
      x == amount
      a == Alpha
  IN  JsAdd(y0, JsDiv(JsMul(x, JsSub(One, JsPowAlpha(t))), JsSub(One, a)))

(* ------------------------------------------------------------------ *)
(* calculateConviction (conviction.js 11-18)                             *)
(* ------------------------------------------------------------------ *)
calculateConviction(timePassed, initConv, amount) ==
  LET t == timePassed
      y0 == initConv
      x == amount
      a == Alpha
  IN  JsAdd(JsMul(y0, JsPowAlpha(t)),
            JsDiv(JsMul(x, JsSub(One, JsPowAlpha(t))), JsSub(One, a)))

(* ------------------------------------------------------------------ *)
(* Stake logs                                                            *)
(* ------------------------------------------------------------------ *)
Entities == {"e1", "e2"}
\* block numbers at which stakes are made
StakeTimes == {0, 1, 2}
\* tokens an entity holds on the proposal after a stake event (0: withdrawn)
Amounts == {0, 2}

Last(s) == s[Len(s)]

SeqsUpTo(S, n) == UNION {[1..m -> S] : m \in 0..n}

\* what the chain records of one stake change, before the derived fields
RawEvents == [time : StakeTimes, entity : Entities, tokensStaked : Amounts]

\* logs in block order; entities are interchangeable, the first staker is e1
RawLogs ==
  {r \in SeqsUpTo(RawEvents, MaxEvents) :
     /\ \A k \in 1..(Len(r) - 1) : r[k].time <= r[k + 1].time
     /\ r # <<>> => r[1].entity = "e1"}

\* tokens entity e holds after the first k events
RECURSIVE Held(_, _, _)
Held(r, k, e) ==
  IF k = 0 THEN 0
  ELSE IF r[k].entity = e THEN r[k].tokensStaked
  ELSE Held(r, k - 1, e)

RECURSIVE SumHeld(_, _, _)
SumHeld(r, k, es) ==
  IF es = {} THEN 0
  ELSE LET e == CHOOSE x \in es : TRUE
       IN  Held(r, k, e) + SumHeld(r, k, es \ {e})

(* ------------------------------------------------------------------ *)
(* getCurrentConviction (conviction.js 28-42)                            *)
(* ------------------------------------------------------------------ *)
\* [...stakes].pop(): the last element of a copy, undefined when empty
CopyPop(seq) == IF seq = <<>> THEN Undefined ELSE Last(seq)

\* getCurrentConviction reading the first element (shift for pop)
getCurrentConviction_First(stakes, currentTime) ==
  LET firstStake == IF stakes = <<>> THEN Undefined ELSE Head(stakes)
  IN  IF firstStake # Undefined
      THEN calculateConviction(currentTime - firstStake.time,
                               firstStake.conviction,
                               FromInt(firstStake.totalTokensStaked))
      ELSE Zero

getCurrentConviction(stakes, currentTime) ==
  LET lastStake == CopyPop(stakes)
  IN  IF lastStake # Undefined
      THEN calculateConviction(currentTime - lastStake.time,
                               lastStake.conviction,
                               FromInt(lastStake.totalTokensStaked))
      ELSE Zero

(* ------------------------------------------------------------------ *)
(* convictionFromStakes (conviction.js 260-272)                          *)
(* ------------------------------------------------------------------ *)
\* the reducer decaying with the event's own amount instead of the previous one
ReduceStake_NewAmount(acc, stake) ==
  LET amount == stake.totalTokensStaked
      timePassed == stake.time - acc[2]
      lastConv == calculateConviction(timePassed, acc[1], FromInt(amount))
      lastTime == stake.time
  IN  <<lastConv, lastTime, amount>>

\* the reducer: acc = <<lastConv, lastTime, oldAmount>>
ReduceStake(acc, stake) ==
  LET amount == stake.totalTokensStaked
      timePassed == stake.time - acc[2]
      lastConv == calculateConviction(timePassed, acc[1], FromInt(acc[3]))
      lastTime == stake.time
  IN  <<lastConv, lastTime, amount>>

RECURSIVE Reduce(_, _)
Reduce(stakes, acc) ==
  IF stakes = <<>> THEN acc ELSE Reduce(Tail(stakes), ReduceStake(acc, Head(stakes)))

convictionFromStakes(stakes) ==
  LET r == Reduce(stakes, <<Zero, 0, 0>>)
  IN  [conviction |-> r[1], time |-> r[2], totalTokensStaked |-> r[3]]

(* ------------------------------------------------------------------ *)
(* stakesByEntity (conviction.js 274-282)                                *)
(* ------------------------------------------------------------------ *)
stakesByEntity(stakes, entity) ==
  LET mine == SelectSeq(stakes, LAMBDA st : st.entity = entity)
  IN  [k \in 1..Len(mine) |->
         [time |-> mine[k].time,
          totalTokensStaked |-> mine[k].tokensStaked,
          conviction |-> mine[k].conviction]]

(* ------------------------------------------------------------------ *)
(* checkConvictionImplementation (conviction.js 45-57)                   *)
(* ------------------------------------------------------------------ *)
\* !== on numbers: NaN differs from everything, itself included
JsStrictNotEqual(v, w) == v.k = "NaN" \/ w.k = "NaN" \/ v # w

\* the replayed checkpoint, and whether console.error was called
checkConvictionImplementation(stakes) ==
  LET replayed == convictionFromStakes(stakes)
  IN  [replayed |-> replayed,
       logged |-> /\ Len(stakes) > 0
                  /\ JsStrictNotEqual(CopyPop(stakes).conviction, replayed.conviction)]

(* ------------------------------------------------------------------ *)
(* getCurrentConvictionByEntity (conviction.js 68-90)                    *)
(* ------------------------------------------------------------------ *)
getCurrentConvictionByEntity(stakes, entity, currentTime) ==
  LET entityStakes == stakesByEntity(stakes, entity)
  IN  IF Len(entityStakes) > 0
      THEN LET c == convictionFromStakes(entityStakes)
           IN  calculateConviction(currentTime - c.time, c.conviction,
                                   FromInt(c.totalTokensStaked))
      ELSE Zero

(* ------------------------------------------------------------------ *)
(* The stake log the chain hands to the app: every event carries the     *)
(* proposal's total stake and the conviction the contract computed.      *)
(* ------------------------------------------------------------------ *)
RECURSIVE ChainConviction(_, _)
ChainConviction(r, k) ==
  IF k = 1 THEN calculateConviction(r[1].time - 0, Zero, FromInt(0))
  ELSE calculateConviction(r[k].time - r[k - 1].time,
                           ChainConviction(r, k - 1),
                           FromInt(SumHeld(r, k - 1, Entities)))

Ledger(r) ==
  [k \in 1..Len(r) |->
     [time |-> r[k].time,
      entity |-> r[k].entity,
      tokensStaked |-> r[k].tokensStaked,
      totalTokensStaked |-> SumHeld(r, k, Entities),
      conviction |-> ChainConviction(r, k)]]

LedgerLogs == {Ledger(r) : r \in RawLogs}

\* logs as a caller may hand them over: any order, any embedded conviction
LooseEvents ==
  [time : StakeTimes, entity : {"e1"}, tokensStaked : Amounts,
   totalTokensStaked : Amounts, conviction : {Zero, FromInt(3)}]

LooseLogs == SeqsUpTo(LooseEvents, MaxEvents)

\* the data-model invariant of a stake log
SatisfiesInvariant(stakes) ==
  /\ \A k \in 1..Len(stakes) : stakes[k].time >= 0
  /\ \A k \in 1..(Len(stakes) - 1) : stakes[k].time <= stakes[k + 1].time
  /\ \A k \in 1..Len(stakes) :
       stakes[k].conviction =
         IF k = 1 THEN calculateConviction(stakes[1].time - 0, Zero, FromInt(0))
         ELSE calculateConviction(stakes[k].time - stakes[k - 1].time,
                                  stakes[k - 1].conviction,
                                  FromInt(stakes[k - 1].totalTokensStaked))

(* ------------------------------------------------------------------ *)
(* State: the call in progress, the activation record of                 *)
(* getConvictionHistory, and the value returned                          *)
(* ------------------------------------------------------------------ *)
VARIABLES call, frame, ret

vars == <<call, frame, ret>>

NoFrame == [pc |-> "none"]

Init ==
  /\ call = [fn |-> "idle"]
  /\ frame = NoFrame
  /\ ret = Undefined

\* block numbers at which the point-in-time queries are asked
QueryTimes == {0, 1, 5}
\* conviction checkpoints handed to calculateConviction directly
InitConvs == {Zero, FromInt(1), FromInt(5), calculateConviction(2, Zero, FromInt(3))}

EvalCalculateConviction ==
  /\ call.fn = "idle"
  /\ \E t \in (-2)..MaxElapsed, y0 \in InitConvs, x \in 0..MaxQty :
       /\ call' = [fn |-> "calculateConviction", timePassed |-> t,
                   initConv |-> y0, amount |-> x]
       /\ ret' = calculateConviction(t, y0, FromInt(x))
  /\ UNCHANGED frame

EvalGetCurrentConviction ==
  /\ call.fn = "idle"
  /\ \E stakes \in LedgerLogs \cup LooseLogs, currentTime \in QueryTimes :
       /\ call' = [fn |-> "getCurrentConviction", stakes |-> stakes,
                   currentTime |-> currentTime]
       /\ ret' = getCurrentConviction(stakes, currentTime)
  /\ UNCHANGED frame

EvalCheckConvictionImplementation ==
  /\ call.fn = "idle"
  /\ \E stakes \in LedgerLogs \cup LooseLogs :
       /\ call' = [fn |-> "checkConvictionImplementation", stakes |-> stakes]
       /\ ret' = checkConvictionImplementation(stakes)
  /\ UNCHANGED frame

EvalGetCurrentConvictionByEntity ==
  /\ call.fn = "idle"
  /\ \E stakes \in LedgerLogs, entity \in Entities, currentTime \in QueryTimes :
       /\ call' = [fn |-> "getCurrentConvictionByEntity", stakes |-> stakes,
                   entity |-> entity, currentTime |-> currentTime]
       /\ ret' = getCurrentConvictionByEntity(stakes, entity, currentTime)
  /\ UNCHANGED frame

Next ==
  \/ EvalCalculateConviction
  \/ EvalGetCurrentConviction
  \/ EvalCheckConvictionImplementation
  \/ EvalGetCurrentConvictionByEntity

Spec == Init /\ [][Next]_vars

(* ------------------------------------------------------------------ *)
(* Numbers of the threshold algebra: rationals n/d in lowest terms with  *)
(* d > 0, NaN, +Infinity and -Infinity.  A zero is +0: the source's      *)
(* divisors `funds` and `(a - 1) * y0 + x` are never -0 for inputs >= 0. *)
(* ------------------------------------------------------------------ *)
Abs(n) == IF n < 0 THEN -n ELSE n

RECURSIVE Gcd(_, _)
Gcd(a, b) == IF b = 0 THEN a ELSE Gcd(b, a % b)

QFin(n, d) ==
  LET g == Gcd(Abs(n), Abs(d))
      s == IF d < 0 THEN -1 ELSE 1
  IN  [k |-> "fin", n |-> (s * n) \div g, d |-> (s * d) \div g]

QInt(n) == QFin(n, 1)
QNaN == [k |-> "NaN", n |-> 0, d |-> 0]
QPosInf == [k |-> "inf", n |-> 1, d |-> 0]
QNegInf == [k |-> "inf", n |-> -1, d |-> 0]

QSign(v) == IF v.n > 0 THEN 1 ELSE IF v.n < 0 THEN -1 ELSE 0
QInf(sign) == IF sign > 0 THEN QPosInf ELSE QNegInf

QNeg(v) == IF v.k = "NaN" THEN QNaN ELSE [v EXCEPT !.n = -v.n]

QAdd(v, w) ==
  IF v.k = "NaN" \/ w.k = "NaN" THEN QNaN
  ELSE IF v.k = "inf" /\ w.k = "inf" THEN (IF v = w THEN v ELSE QNaN)
  ELSE IF v.k = "inf" THEN v
  ELSE IF w.k = "inf" THEN w
  ELSE QFin(v.n * w.d + w.n * v.d, v.d * w.d)

QSub(v, w) == QAdd(v, QNeg(w))

QMul(v, w) ==
  IF v.k = "NaN" \/ w.k = "NaN" THEN QNaN
  ELSE IF v.k = "inf" \/ w.k = "inf"
       THEN (IF QSign(v) * QSign(w) = 0 THEN QNaN ELSE QInf(QSign(v) * QSign(w)))
  ELSE QFin(v.n * w.n, v.d * w.d)

QDiv(v, w) ==
  IF v.k = "NaN" \/ w.k = "NaN" THEN QNaN
  ELSE IF v.k = "inf" THEN (IF w.k = "inf" THEN QNaN
                            ELSE IF QSign(w) < 0 THEN QNeg(v) ELSE v)
  ELSE IF w.k = "inf" THEN QInt(0)
  ELSE IF w.n = 0 THEN (IF v.n = 0 THEN QNaN ELSE QInf(QSign(v)))
  ELSE QFin(v.n * w.d, v.d * w.n)

\* v < w; false when either is NaN
QLess(v, w) ==
  IF v.k = "NaN" \/ w.k = "NaN" THEN FALSE
  ELSE IF v.k = "inf" THEN v = QNegInf /\ w # QNegInf
  ELSE IF w.k = "inf" THEN w = QPosInf
  ELSE v.n * w.d < w.n * v.d

\* a finite number other than 0 of which only the sign is kept (a logarithm
\* of a rational is irrational)
QSome(sign) == [k |-> "some", n |-> sign, d |-> 1]

\* Math.log: NaN below 0, -Infinity at 0, 0 at 1, else finite with a sign
MathLog(v) ==
  IF v.k = "NaN" THEN QNaN
  ELSE IF v.k = "inf" THEN (IF v = QPosInf THEN QPosInf ELSE QNaN)
  ELSE IF v.n < 0 THEN QNaN
  ELSE IF v.n = 0 THEN QNegInf
  ELSE IF v.n < v.d THEN QSome(-1)
  ELSE IF v.n = v.d THEN QInt(0)
  ELSE QSome(1)

\* v / w for numbers known up to their sign
QSomeDiv(v, w) ==
  IF v.k = "NaN" \/ w.k = "NaN" THEN QNaN
  ELSE IF v.k = "inf" THEN (IF w.k = "inf" THEN QNaN
                            ELSE IF QSign(w) < 0 THEN QNeg(v) ELSE v)
  ELSE IF w.k = "inf" THEN QInt(0)
  ELSE IF w.n = 0 THEN (IF v.n = 0 THEN QNaN ELSE QInf(QSign(v)))
  ELSE IF v.n = 0 THEN QInt(0)
  ELSE QSome(QSign(v) * QSign(w))

(* ------------------------------------------------------------------ *)
(* getRemainingTimeToPass (conviction.js 178-184)                        *)
(* ------------------------------------------------------------------ *)
getRemainingTimeToPass(threshold, conviction, amount, alpha) ==
  LET a == alpha
      y == threshold
      y0 == conviction
      x == amount
  IN  QSomeDiv(MathLog(QDiv(QAdd(QMul(QSub(a, QInt(1)), y), x),
                            QAdd(QMul(QSub(a, QInt(1)), y0), x))),
               MathLog(a))

(* ------------------------------------------------------------------ *)
(* calculateThreshold (conviction.js 220-227)                            *)
(* ------------------------------------------------------------------ *)
\* calculateThreshold with the square of (beta - share) forgotten
calculateThreshold_NoSquare(requested, funds, supply, alpha, beta, rho) ==
  LET share == QDiv(requested, funds)
  IN  IF QLess(share, beta)
      THEN QDiv(QDiv(QMul(rho, supply), QSub(QInt(1), alpha)), QSub(beta, share))
      ELSE QPosInf

calculateThreshold(requested, funds, supply, alpha, beta, rho) ==
  LET share == QDiv(requested, funds)
  IN  IF QLess(share, beta)
      THEN LET diff == QSub(beta, share)
           IN  QDiv(QDiv(QMul(rho, supply), QSub(QInt(1), alpha)), QMul(diff, diff))
      ELSE QPosInf

(* ------------------------------------------------------------------ *)
(* getMaxConviction (conviction.js 254-258)                              *)
(* ------------------------------------------------------------------ *)
getMaxConviction(amount, alpha) ==
  LET x == amount
      a == alpha
  IN  QDiv(x, QSub(QInt(1), a))

\* decay constants and shares, each in (0,1)
Fractions == {QFin(1, 2), QFin(1, 3), QFin(9, 10)}
\* conviction levels of the threshold queries
Levels == 0..(3 * MaxQty)

EvalGetRemainingTimeToPass ==
  /\ call.fn = "idle"
  /\ \E threshold \in Levels, conviction \in Levels, amount \in 0..MaxQty,
        alpha \in Fractions :
       /\ call' = [fn |-> "getRemainingTimeToPass", threshold |-> threshold,
                   conviction |-> conviction, amount |-> amount, alpha |-> alpha]
       /\ ret' = getRemainingTimeToPass(QInt(threshold), QInt(conviction),
                                        QInt(amount), alpha)
  /\ UNCHANGED frame

EvalCalculateThreshold ==
  /\ call.fn = "idle"
  /\ \E requested \in 0..MaxQty, funds \in 0..MaxQty, supply \in 0..MaxQty,
        alpha \in Fractions, beta \in Fractions, rho \in Fractions :
       /\ call' = [fn |-> "calculateThreshold", requested |-> requested,
                   funds |-> funds, supply |-> supply, alpha |-> alpha,
                   beta |-> beta, rho |-> rho]
       /\ ret' = calculateThreshold(QInt(requested), QInt(funds), QInt(supply),
                                    alpha, beta, rho)
  /\ UNCHANGED frame

NextThreshold ==
  \/ EvalGetRemainingTimeToPass
  \/ EvalCalculateThreshold

SpecThreshold == Init /\ [][NextThreshold]_vars

(* ------------------------------------------------------------------ *)
(* getConvictionHistory (conviction.js 101-141), one loop iteration at a *)
(* time.  frame holds its parameters and locals; i counts consumed       *)
(* recentStakes from 0 as in the source.                                 *)
(* ------------------------------------------------------------------ *)
\* the number of time units the history looks back
HistoryWindow == 50

\* lines 102-103
HistEnter(stakes, currentTime, timeUnit) ==
  [pc |-> "pad", stakes |-> stakes, currentTime |-> currentTime,
   timeUnit |-> timeUnit, history |-> <<>>,
   initTime |-> currentTime - HistoryWindow * timeUnit - 1,
   recentStakes |-> <<>>, oldAmount |-> 0, lastConv |-> Undefined,
   timePassed |-> 0, i |-> 0, t |-> 0]

\* lines 106-111, one iteration of `while (initTime < 0)`
HistPad(f) ==
  [f EXCEPT !.history = IF JsRem(f.initTime, f.timeUnit) = 0
                        THEN Append(@, Zero) ELSE @,
            !.initTime = @ + 1]

\* HistSeed with timePassed starting at 1
HistSeed_TimePassedOne(f) ==
  LET oldStakes == SelectSeq(f.stakes, LAMBDA st : st.time <= f.initTime)
      recentStakes == SelectSeq(f.stakes, LAMBDA st : st.time > f.initTime)
      seed == IF CopyPop(oldStakes) # Undefined THEN CopyPop(oldStakes)
              ELSE [totalTokensStaked |-> 0, conviction |-> Zero, time |-> 0]
  IN  [f EXCEPT !.pc = "loop",
                !.recentStakes = recentStakes,
                !.oldAmount = seed.totalTokensStaked,
                !.lastConv = calculateConviction(f.initTime - seed.time,
                                                 seed.conviction,
                                                 FromInt(seed.totalTokensStaked)),
                !.timePassed = 1,
                !.i = 0,
                !.t = f.initTime]

\* lines 113-126
HistSeed(f) ==
  LET oldStakes == SelectSeq(f.stakes, LAMBDA st : st.time <= f.initTime)
      recentStakes == SelectSeq(f.stakes, LAMBDA st : st.time > f.initTime)
      seed == IF CopyPop(oldStakes) # Undefined THEN CopyPop(oldStakes)
              ELSE [totalTokensStaked |-> 0, conviction |-> Zero, time |-> 0]
  IN  [f EXCEPT !.pc = "loop",
                !.recentStakes = recentStakes,
                !.oldAmount = seed.totalTokensStaked,
                !.lastConv = calculateConviction(f.initTime - seed.time,
                                                 seed.conviction,
                                                 FromInt(seed.totalTokensStaked)),
                !.timePassed = 0,
                !.i = 0,
                !.t = f.initTime]

\* lines 133-137, the whole `while (recentStakes.length > i && ...)`
RECURSIVE HistConsume(_)
HistConsume(f) ==
  IF Len(f.recentStakes) > f.i /\ f.recentStakes[f.i + 1].time <= f.t
  THEN HistConsume([f EXCEPT !.oldAmount = f.recentStakes[f.i + 1].totalTokensStaked,
                             !.i = @ + 1,
                             !.timePassed = 0,
                             !.lastConv = CopyPop(f.history)])
  ELSE f

\* HistTick consuming the tick's stakes before sampling
HistTick_ConsumeFirst(f) ==
  LET consumed == HistConsume(f)
      pushed == IF JsRem(f.t, f.timeUnit) = 0
                THEN [consumed EXCEPT !.history =
                        Append(@, calculateConviction(consumed.timePassed,
                                                      consumed.lastConv,
                                                      FromInt(consumed.oldAmount)))]
                ELSE consumed
  IN  [pushed EXCEPT !.timePassed = @ + 1, !.t = @ + 1]

\* lines 128-139, one iteration of the for loop
HistTick(f) ==
  LET pushed == IF JsRem(f.t, f.timeUnit) = 0
                THEN [f EXCEPT !.history =
                        Append(@, calculateConviction(f.timePassed, f.lastConv,
                                                      FromInt(f.oldAmount)))]
                ELSE f
      consumed == HistConsume(pushed)
  IN  [consumed EXCEPT !.timePassed = @ + 1, !.t = @ + 1]

\* line 140
HistReturn(f) == [f EXCEPT !.pc = "done"]

HistStep(f) ==
  IF f.pc = "pad" THEN (IF f.initTime < 0 THEN HistPad(f) ELSE HistSeed(f))
  ELSE IF f.t <= f.currentTime THEN HistTick(f)
  ELSE HistReturn(f)

RECURSIVE HistRun(_)
HistRun(f) == IF f.pc = "done" THEN f.history ELSE HistRun(HistStep(f))

getConvictionHistory(stakes, currentTime, timeUnit) ==
  HistRun(HistEnter(stakes, currentTime, timeUnit))

(* ------------------------------------------------------------------ *)
(* getConvictionHistoryByEntity (conviction.js 153-166)                  *)
(* ------------------------------------------------------------------ *)
getConvictionHistoryByEntity(stakes, entity, time, timeUnit) ==
  getConvictionHistory(stakesByEntity(stakes, entity), time, timeUnit)

\* blocks per sampled time unit
TimeUnits == {1, 2, 5}
\* current block numbers: a new proposal, one just younger than the window,
\* one just older than it
CurrentTimes(timeUnit) ==
  {0, HistoryWindow * timeUnit - 2, HistoryWindow * timeUnit + 2}

CallGetConvictionHistory ==
  /\ call.fn = "idle"
  /\ \E stakes \in LedgerLogs, timeUnit \in TimeUnits :
       \E currentTime \in CurrentTimes(timeUnit) :
         /\ call' = [fn |-> "getConvictionHistory", stakes |-> stakes,
                     currentTime |-> currentTime, timeUnit |-> timeUnit]
         /\ frame' = HistEnter(stakes, currentTime, timeUnit)
  /\ UNCHANGED ret

CallGetConvictionHistoryByEntity ==
  /\ call.fn = "idle"
  /\ \E stakes \in LedgerLogs, entity \in Entities, timeUnit \in TimeUnits :
       \E time \in CurrentTimes(timeUnit) :
         /\ call' = [fn |-> "getConvictionHistoryByEntity", stakes |-> stakes,
                     entity |-> entity, currentTime |-> time,
                     timeUnit |-> timeUnit]
         /\ frame' = HistEnter(stakesByEntity(stakes, entity), time, timeUnit)
  /\ UNCHANGED ret

Pad ==
  /\ frame.pc = "pad"
  /\ frame.initTime < 0
  /\ frame' = HistPad(frame)
  /\ UNCHANGED <<call, ret>>

Seed ==
  /\ frame.pc = "pad"
  /\ ~(frame.initTime < 0)
  /\ frame' = HistSeed(frame)
  /\ UNCHANGED <<call, ret>>

Tick ==
  /\ frame.pc = "loop"
  /\ frame.t <= frame.currentTime
  /\ frame' = HistTick(frame)
  /\ UNCHANGED <<call, ret>>

Return ==
  /\ frame.pc = "loop"
  /\ ~(frame.t <= frame.currentTime)
  /\ frame' = HistReturn(frame)
  /\ ret' = frame.history
  /\ UNCHANGED call

NextHistory ==
  \/ CallGetConvictionHistory
  \/ CallGetConvictionHistoryByEntity
  \/ Pad
  \/ Seed
  \/ Tick
  \/ Return

SpecHistory == Init /\ [][NextHistory]_vars

(* ================================================================== *)
(* Properties                                                            *)
(* ================================================================== *)

\* C1: getConvictionHistory always returns exactly 51 samples, whatever
\* the current time, the time unit and the stake log.
C1_HistoryHas51Samples ==
  (call.fn = "getConvictionHistory" /\ frame.pc = "done")
    => Len(ret) = HistoryWindow + 1

\* C2: getRemainingTimeToPass returns NaN whenever the asymptotic ceiling
\* amount/(1 - alpha) is below threshold, for every conviction >= 0.
C2_NaNWhenCeilingBelowThreshold ==
  (/\ call.fn = "getRemainingTimeToPass"
   /\ QLess(getMaxConviction(QInt(call.amount), call.alpha), QInt(call.threshold)))
    => ret = QNaN

\* C3: getRemainingTimeToPass returns a negative number whenever
\* conviction > threshold, for every amount >= 0.
C3_NegativeWhenAlreadyPassed ==
  (call.fn = "getRemainingTimeToPass" /\ call.conviction > call.threshold)
    => (ret.k # "NaN" /\ ret.n < 0)

\* C4: getCurrentConviction returns exactly 0 for an empty log, and otherwise
\* calculateConviction(currentTime - last.time, last.conviction,
\* last.totalTokensStaked) for the final element of the list as given.
C4_CurrentConvictionFromLast ==
  call.fn = "getCurrentConviction" =>
    LET n == Len(call.stakes)
    IN  IF n = 0 THEN ret = Zero
        ELSE ret = calculateConviction(call.currentTime - call.stakes[n].time,
                                       call.stakes[n].conviction,
                                       FromInt(call.stakes[n].totalTokensStaked))

\* a two-event log handed over out of order, whose events differ
C4_Witness ==
  /\ call.fn = "getCurrentConviction"
  /\ Len(call.stakes) = 2
  /\ call.stakes[1].time > call.stakes[2].time
  /\ call.stakes[1].conviction # call.stakes[2].conviction
  /\ call.stakes[1].totalTokensStaked # call.stakes[2].totalTokensStaked
  /\ IsNum(ret)

\* C5: for a stake log that satisfies the data-model invariant, the replay
\* convictionFromStakes returns the last event's embedded conviction, time and
\* totalTokensStaked (no mismatch is logged), so replaying and trusting the
\* embedded checkpoint give the same current conviction.
C5_ReplayMatchesEmbedded ==
  (/\ call.fn = "checkConvictionImplementation"
   /\ call.stakes # <<>>
   /\ SatisfiesInvariant(call.stakes))
    => /\ ret.replayed.conviction = Last(call.stakes).conviction
       /\ ret.replayed.time = Last(call.stakes).time
       /\ ret.replayed.totalTokensStaked = Last(call.stakes).totalTokensStaked
       /\ ~ret.logged
       /\ \A now \in QueryTimes :
            getCurrentConviction(call.stakes, now) =
              calculateConviction(now - ret.replayed.time, ret.replayed.conviction,
                                  FromInt(ret.replayed.totalTokensStaked))

\* a log of two events at different blocks, conviction accrued in between
C5_Witness ==
  /\ call.fn = "checkConvictionImplementation"
  /\ Len(call.stakes) = 2
  /\ SatisfiesInvariant(call.stakes)
  /\ call.stakes[1].time < call.stakes[2].time
  /\ call.stakes[1].totalTokensStaked # call.stakes[2].totalTokensStaked
  /\ call.stakes[2].conviction # Zero
  /\ IsNum(ret.replayed.conviction)

\* C6: getConvictionHistoryByEntity rebuilds the entity's conviction from its
\* own (time, tokensStaked) events: it returns the same samples for two stake
\* logs in which the entity's events differ only in their embedded conviction
\* (other entities staked differently on the proposal).
OwnEvents(stakes, entity) ==
  LET mine == stakesByEntity(stakes, entity)
  IN  [k \in 1..Len(mine) |-> <<mine[k].time, mine[k].totalTokensStaked>>]

C6_EntityHistoryIgnoresEmbedded ==
  (call.fn = "getConvictionHistoryByEntity" /\ frame.pc = "done")
    => \A other \in LedgerLogs :
         OwnEvents(other, call.entity) = OwnEvents(call.stakes, call.entity)
           => getConvictionHistoryByEntity(other, call.entity, call.currentTime,
                                           call.timeUnit) = ret

\* C7: calculateConviction is the closed form of the recurrence
\* conviction(t) = alpha*conviction(t-1) + amount: it returns initConv at
\* t = 0 and, for t >= 0, its value at t+1 is alpha times its value at t
\* plus amount.
C7_ClosedFormOfRecurrence ==
  (call.fn = "calculateConviction" /\ call.timePassed >= 0)
    => /\ call.timePassed = 0 => ret = call.initConv
       /\ calculateConviction(call.timePassed + 1, call.initConv,
                              FromInt(call.amount))
            = JsAdd(JsMul(Alpha, ret), FromInt(call.amount))

\* some blocks after a non-zero checkpoint, with tokens staked
C7_Witness ==
  /\ call.fn = "calculateConviction"
  /\ call.timePassed >= 2
  /\ call.initConv # Zero
  /\ call.amount > 0
  /\ IsNum(ret)

\* C8: for 0 <= currentTime < 50*timeUnit and a stake log satisfying the
\* data-model invariant, the history starts with 0: its first entry is 0 and
\* every entry emitted for a tick before time 0 is 0.
TicksBeforeZero(currentTime, timeUnit) ==
  {k \in (currentTime - HistoryWindow * timeUnit - 1)..(-1) : k % timeUnit = 0}

C8_LeadingEntriesZero ==
  (/\ call.fn = "getConvictionHistory"
   /\ frame.pc = "done"
   /\ call.currentTime < HistoryWindow * call.timeUnit
   /\ SatisfiesInvariant(call.stakes))
    => /\ Len(ret) >= 1
       /\ ret[1] = Zero
       /\ LET n == Cardinality(TicksBeforeZero(call.currentTime, call.timeUnit))
          IN  Len(ret) >= n /\ \A k \in 1..n : ret[k] = Zero

\* a proposal too young for any padding tick, staked on at block 0: the
\* first entry is evaluated, the second already carries conviction
C8_Witness ==
  /\ call.fn = "getConvictionHistory"
  /\ frame.pc = "done"
  /\ call.currentTime < HistoryWindow * call.timeUnit
  /\ TicksBeforeZero(call.currentTime, call.timeUnit) = {}
  /\ call.stakes # <<>>
  /\ call.stakes[1].time = 0
  /\ call.stakes[1].totalTokensStaked > 0
  /\ ret[1] = Zero
  /\ ret[2] # Zero

\* C9: calculateThreshold returns +Infinity exactly when
\* requested/funds >= beta, and otherwise
\* rho*supply / (1-alpha) / (beta - requested/funds)^2.
QGeq(v, w) == v.k # "NaN" /\ w.k # "NaN" /\ ~QLess(v, w)

C9_InfinityIffShareAtLeastBeta ==
  call.fn = "calculateThreshold" =>
    LET share == QDiv(QInt(call.requested), QInt(call.funds))
        diff == QSub(call.beta, share)
    IN  IF QGeq(share, call.beta) THEN ret = QPosInf
        ELSE /\ ret # QPosInf
             /\ ret = QDiv(QDiv(QMul(call.rho, QInt(call.supply)),
                                QSub(QInt(1), call.alpha)),
                           QMul(diff, diff))

\* C9, amended: calculateThreshold returns +Infinity exactly when
\* requested >= beta*funds (requested/funds >= beta, or requested = funds = 0,
\* where the share 0/0 is NaN and so not below beta), and otherwise the finite
\* number y with y * (1-alpha) * (beta - requested/funds)^2 = rho*supply.
C9_InfinityIffNotBelowBeta ==
  call.fn = "calculateThreshold" =>
    LET atLeast == call.requested * call.beta.d >= call.beta.n * call.funds
    IN  /\ (ret = QPosInf) <=> atLeast
        /\ ~atLeast =>
             LET diff == QSub(call.beta, QFin(call.requested, call.funds))
             IN  /\ ret.k = "fin"
                 /\ QMul(QMul(ret, QSub(QInt(1), call.alpha)), QMul(diff, diff))
                      = QMul(call.rho, QInt(call.supply))

\* nothing requested from an empty fund
C9_Witness ==
  /\ call.fn = "calculateThreshold"
  /\ call.requested = 0
  /\ call.funds = 0
  /\ call.supply > 0
  /\ ret = QPosInf

\* C10: in getConvictionHistory the checkpoint conviction is always a defined
\* number (a history sample exists whenever a recent stake is consumed) and
\* no sample is undefined or NaN.
C10_CheckpointAlwaysDefined ==
  (call.fn = "getConvictionHistory" /\ frame.pc \in {"loop", "done"})
    => /\ IsNum(frame.lastConv)
       /\ \A k \in 1..Len(frame.history) : IsNum(frame.history[k])

\* C11: for a stake log satisfying the data-model invariant whose events all
\* have time <= currentTime, and currentTime a multiple of timeUnit, the last
\* sample of getConvictionHistory equals getCurrentConviction, also when a
\* stake change falls between two sampled ticks.
C11_Applies ==
  /\ call.fn = "getConvictionHistory"
  /\ frame.pc = "done"
  /\ SatisfiesInvariant(call.stakes)
  /\ \A k \in 1..Len(call.stakes) : call.stakes[k].time <= call.currentTime
  /\ call.currentTime % call.timeUnit = 0

C11_LastSampleIsCurrentConviction ==
  C11_Applies
    => /\ ret # <<>>
       /\ Last(ret) = getCurrentConviction(call.stakes, call.currentTime)

\* C11, amended: the same, for logs whose stake events all fall on sampled
\* ticks (every event's time is a multiple of timeUnit; always so for
\* timeUnit = 1).
C11_LastSampleIsCurrentConvictionOnTicks ==
  (/\ C11_Applies
   /\ \A k \in 1..Len(call.stakes) : call.stakes[k].time % call.timeUnit = 0)
    => /\ ret # <<>>
       /\ Last(ret) = getCurrentConviction(call.stakes, call.currentTime)

\* two blocks per time unit, a stake at block 0 and a change of the total at
\* block 2, after conviction has accrued
C11_Witness ==
  /\ C11_Applies
  /\ call.timeUnit = 2
  /\ Len(call.stakes) = 2
  /\ call.stakes[1].time = 0
  /\ call.stakes[2].time = 2
  /\ call.stakes[1].totalTokensStaked # call.stakes[2].totalTokensStaked
  /\ call.stakes[2].conviction # Zero
  /\ Last(ret) # Zero

====
